---- MODULE Spec2Model ----
(***************************************************************************)
(* A model of the lumenode dependency-resolution container                  *)
(* (src/Container.js): the binding registry, the instance cache, the alias  *)
(* table, the resolved markers, the recursive make/build resolver and the   *)
(* call/callClass invoker.                                                  *)
(*                                                                          *)
(* Modelling domain.  JavaScript strings are sequences of one-character     *)
(* strings, so that the marker prefix "+", the "@" separator and the        *)
(* parameter-list parser are computed, not assumed.  Abstract names handed  *)
(* to the API are plain identifiers: they carry no "+" marker, no "@", and  *)
(* are not names of Object.prototype / Array.prototype members (for which   *)
(* a lookup in an empty JavaScript object or array is not undefined).       *)
(* A key whose value is undefined is an absent key, as the code's own       *)
(* tests "x !== undefined" treat it.  Constructibles are ES5 functions.     *)
(***************************************************************************)
EXTENDS Integers, Sequences, FiniteSets, TLC

\* ------------------------------------------------------------------ bounds
\* Objects one run may construct (each construction draws a fresh identity).
MaxObjects == 3
\* API calls one run may perform.
MaxCalls == 4
\* Nested make frames before the JavaScript stack is exhausted (RangeError).
MaxDepth == 6

\* ------------------------------------------------------------------ strings
A == <<"a">>
B == <<"b">>
M == <<"m">>
Names == {A, B}

\* The partial map with no key: {} in the source.
Empty == <<>>

Has(map, key) == key \in DOMAIN map

\* delete map[key]
Delete(map, key) == [x \in DOMAIN map \ {key} |-> map[x]]

\* map[key] = val
Put(map, key, val) == [x \in DOMAIN map \cup {key} |-> IF x = key THEN val ELSE map[x]]

\* s.match(/^\+/i)
StartsWithPlus(s) == s # <<>> /\ s[1] = "+"

\* s.replace(/\+/, ''): the first "+" is removed.
RemoveFirstPlus(s) ==
  IF \E i \in 1..Len(s) : s[i] = "+"
    THEN LET i == CHOOSE j \in 1..Len(s) : s[j] = "+" /\ \A k \in 1..(j - 1) : s[k] # "+"
         IN  SubSeq(s, 1, i - 1) \o SubSeq(s, i + 1, Len(s))
    ELSE s

\* s.split(sep), sep one character: the segments between the separators.
RECURSIVE Split(_, _)
Split(s, sep) ==
  IF \E i \in 1..Len(s) : s[i] = sep
    THEN LET i == CHOOSE j \in 1..Len(s) : s[j] = sep /\ \A k \in 1..(j - 1) : s[k] # sep
         IN  <<SubSeq(s, 1, i - 1)>> \o Split(SubSeq(s, i + 1, Len(s)), sep)
    ELSE <<s>>

\* s.replace(/\s/g, '')
RECURSIVE StripSpaces(_)
StripSpaces(s) ==
  IF s = <<>> THEN <<>>
  ELSE IF Head(s) = " " THEN StripSpaces(Tail(s))
  ELSE <<Head(s)>> \o StripSpaces(Tail(s))

\* ------------------------------------------------------------------ values
Str(s) == [t |-> "str", s |-> s]
Fn(f) == [t |-> "fn", f |-> f]
Obj(i, f) == [t |-> "obj", id |-> i, f |-> f]
Undefined == [t |-> "undefined"]
\* 0: a falsy primitive.  'bar': a truthy one.
Zero == [t |-> "num", n |-> 0]
Bar == Str(<<"b", "a", "r">>)
\* What an invoked function or method returns.
Ret == [t |-> "ret"]

\* instance[method] of a built object: the function its constructor installed.
Method(f) == [t |-> "method", f |-> f]
\* callback = [instance, method]
Pair(inst, m) == [t |-> "pair", inst |-> inst, m |-> m]

IsStr(v) == v.t = "str"
IsFn(v) == v.t = "fn"

\* JavaScript truthiness: if (v)
Truthy(v) ==
  CASE v.t = "undefined" -> FALSE
    [] v.t = "num" -> v.n # 0
    [] v.t = "str" -> v.s # <<>>
    [] OTHER -> TRUE

\* The functions of the program under resolution.  params is the text between
\* the parentheses of the function's source; methods are the functions the
\* constructor installs on the object it builds.
FnParams(f) ==
  CASE f = "F0" -> <<>>
    [] f = "F1" -> <<"a">>
    [] f = "F2" -> <<"b", ",", " ", "a">>
    [] f = "F3" -> <<"a", ",", "d">>
    [] f = "L0" -> <<>>
    [] f = "L1" -> <<"b">>
MethodParams(f) ==
  CASE f = "F0" -> <<"a">>
    [] f = "F1" -> <<"b", ",", " ", "a">>
    [] f = "F2" -> <<>>
    [] f = "F3" -> <<>>
    [] f = "L0" -> <<"b">>
    [] f = "L1" -> <<>>

\* ------------------------------------------------------------------ results
\* What an operation leaves: the container, how it ended ("ok" or the error
\* thrown) and the value returned.
Ok(st, v) == [st |-> st, k |-> "ok", v |-> v]
Throw(st, e) == [st |-> st, k |-> e, v |-> Undefined]

Emit(st, ev) == [st EXCEPT !.log = Append(@, ev)]

\* ------------------------------------------------------------------ registry
isAlias(st, abstract) ==
  IF Has(st.aliases, abstract) THEN Str(st.aliases[abstract]) ELSE Undefined

\* A faulty getAlias: the alias of an alias is followed.
getAliasChained(st, abstract) ==
  LET once == IF Has(st.aliases, abstract) THEN st.aliases[abstract] ELSE abstract
  IN  IF Has(st.aliases, once) THEN st.aliases[once] ELSE once

\* A faulty getAlias: the alias table is never consulted.
getAliasUnresolved(st, abstract) == abstract

getAlias(st, abstract) ==
  IF Has(st.aliases, abstract) /\ Truthy(Str(st.aliases[abstract]))
    THEN st.aliases[abstract]
    ELSE abstract

\* A faulty dropStaleInstances: every cached instance is dropped.
dropStaleInstancesOfAll(st, abstract) == [st EXCEPT !.instances = Empty]

\* A faulty dropStaleInstances: the cached instance is kept.
dropStaleInstancesKept(st, abstract) == st

dropStaleInstances(st, abstract) ==
  [st EXCEPT !.instances = Delete(@, abstract)]

bind(st, abstract, concrete, shared) ==
  LET st1 == dropStaleInstances(st, abstract)
  IN  [st1 EXCEPT !.bindings = Put(@, abstract, [concrete |-> concrete, shared |-> shared])]

singleton(st, abstract, concrete) == bind(st, abstract, concrete, TRUE)

\* A faulty bound: a name marked resolved counts as bound.
boundOrResolved(st, abstract) ==
  \/ Has(st.bindings, abstract)
  \/ (Has(st.instances, abstract) /\ Truthy(st.instances[abstract]))
  \/ Truthy(isAlias(st, abstract))
  \/ abstract \in st.resolved

bound(st, abstract) ==
  \/ Has(st.bindings, abstract)
  \/ (Has(st.instances, abstract) /\ Truthy(st.instances[abstract]))
  \/ Truthy(isAlias(st, abstract))

bindIf(st, abstract, concrete, shared) ==
  IF ~bound(st, abstract) THEN bind(st, abstract, concrete, shared) ELSE st

alias(st, abstract, aliasName) ==
  [st EXCEPT !.aliases = Put(@, aliasName, abstract)]

instance(st, abstract, value) ==
  [st EXCEPT !.aliases = Delete(@, abstract),
             !.instances = Put(st.instances, abstract, value)]

\* A faulty forgetInstance: only the cached instance is removed.
forgetInstanceCacheOnly(st, abstract) ==
  [st EXCEPT !.instances = Delete(@, abstract)]

forgetInstance(st, abstract) ==
  [st EXCEPT !.instances = Delete(@, abstract),
             !.bindings = Delete(@, abstract),
             !.aliases = Delete(@, abstract)]

\* A faulty forgotAll: the alias table is not cleared.
forgotAllKeepingAliases(st) ==
  [st EXCEPT !.bindings = Empty, !.instances = Empty, !.resolved = {}]

forgotAll(st) ==
  [st EXCEPT !.bindings = Empty, !.instances = Empty, !.resolved = {}, !.aliases = Empty]

\* ------------------------------------------------------------------ resolver
\* A faulty isShared: the binding's shared flag is not read.
isSharedByInstanceOnly(st, abstract) == Has(st.instances, abstract)

\* A faulty isShared: every name is shared.
isSharedAlways(st, abstract) == TRUE

isShared(st, abstract) ==
  LET shared == Has(st.bindings, abstract) /\ st.bindings[abstract].shared
  IN  Has(st.instances, abstract) \/ shared

needAutoInject(concrete) == ~IsFn(concrete) /\ StartsWithPlus(concrete.s)

\* A faulty isBuildable: every concrete is built, a string naming another
\* abstract included.
isBuildableAlways(concrete, abstract) == TRUE

\* A faulty isBuildable: a concrete naming its own abstract is not recognised.
isBuildableOnlyFunctions(concrete, abstract) == IsFn(concrete)

isBuildable(concrete, abstract) == concrete = Str(abstract) \/ IsFn(concrete)

\* A faulty getConcrete: a name that carries the Loader marker is marked again.
getConcreteAlwaysMarking(st, abstract) ==
  IF ~Has(st.bindings, abstract) THEN Str(<<"+">> \o abstract) ELSE st.bindings[abstract].concrete

\* A faulty getConcrete: an unbound name is returned without the Loader marker.
getConcreteWithoutMarker(st, abstract) ==
  IF ~Has(st.bindings, abstract) THEN Str(abstract) ELSE st.bindings[abstract].concrete

getConcrete(st, abstract) ==
  IF ~Has(st.bindings, abstract)
    THEN IF StartsWithPlus(abstract) THEN Str(abstract) ELSE Str(<<"+">> \o abstract)
    ELSE st.bindings[abstract].concrete

\* concrete.toString().match(/^function\s*[^\(]*\(\s*([^\)]*)\)/m), then the
\* captured text without whitespace, split at the commas, empty pieces dropped.
\* The text of a value that is no function does not match: no parameter.
parseFunctionArguments(concrete) ==
  IF ~IsFn(concrete) /\ concrete.t # "method" THEN <<>>
  ELSE LET args == IF IsFn(concrete) THEN FnParams(concrete.f) ELSE MethodParams(concrete.f)
           deps == Split(StripSpaces(args), ",")
       IN  SelectSeq(deps, LAMBDA d : Len(d) > 0)

\* require(className): the external Loader.
Require(st, className) ==
  IF Has(st.modules, className)
    THEN Ok(Emit(st, [e |-> "require", name |-> className]), Fn(st.modules[className]))
    ELSE Throw(Emit(st, [e |-> "require", name |-> className]), "NotFound")

\* new concrete(...instances): Function.prototype.bind throws on a non-function.
instantiateClass(st, concrete, instances) ==
  IF ~IsFn(concrete) THEN Throw(st, "TypeError")
  ELSE LET object == Obj(st.nextId, concrete.f)
           st1 == Emit([st EXCEPT !.nextId = @ + 1], [e |-> "new", obj |-> object, args |-> instances])
       IN  Ok(st1, object)

RECURSIVE make(_, _, _, _)
RECURSIVE build(_, _, _, _)
RECURSIVE getDependencies(_, _, _, _)

\* A faulty getDependencies: an override is used only when it is truthy.
RECURSIVE getDependenciesIfTruthy(_, _, _, _)
getDependenciesIfTruthy(st, dependencyArguments, parameters, depth) ==
  IF dependencyArguments = <<>> THEN Ok(st, <<>>)
  ELSE LET dependency == Head(dependencyArguments)
           first == IF Has(parameters, dependency) /\ Truthy(parameters[dependency])
                      THEN Ok(st, parameters[dependency])
                      ELSE make(st, dependency, Empty, depth + 1)
       IN  IF first.k # "ok" THEN first
           ELSE LET rest == getDependenciesIfTruthy(first.st, Tail(dependencyArguments),
                                                    parameters, depth)
                IN  IF rest.k # "ok" THEN rest
                    ELSE Ok(rest.st, <<first.v>> \o rest.v)

\* A faulty getDependencies: the override map is handed on to the make of a
\* dependency.
RECURSIVE getDependenciesHandingOn(_, _, _, _)
getDependenciesHandingOn(st, dependencyArguments, parameters, depth) ==
  IF dependencyArguments = <<>> THEN Ok(st, <<>>)
  ELSE LET dependency == Head(dependencyArguments)
           first == IF Has(parameters, dependency)
                      THEN Ok(st, parameters[dependency])
                      ELSE make(st, dependency, parameters, depth + 1)
       IN  IF first.k # "ok" THEN first
           ELSE LET rest == getDependenciesHandingOn(first.st, Tail(dependencyArguments),
                                                     parameters, depth)
                IN  IF rest.k # "ok" THEN rest
                    ELSE Ok(rest.st, <<first.v>> \o rest.v)

getDependencies(st, dependencyArguments, parameters, depth) ==
  IF dependencyArguments = <<>> THEN Ok(st, <<>>)
  ELSE LET dependency == Head(dependencyArguments)
           first == IF Has(parameters, dependency)
                      THEN Ok(st, parameters[dependency])
                      ELSE make(st, dependency, Empty, depth + 1)
       IN  IF first.k # "ok" THEN first
           ELSE LET rest == getDependencies(first.st, Tail(dependencyArguments), parameters, depth)
                IN  IF rest.k # "ok" THEN rest
                    ELSE Ok(rest.st, <<first.v>> \o rest.v)

\* A faulty build: a dependency that cannot be resolved is left out and the
\* constructible is instantiated with no arguments.
buildWithoutFailedDependencies(st, concrete, parameters, depth) ==
  IF ~IsFn(concrete) /\ ~IsStr(concrete) THEN Throw(st, "TypeError")
  ELSE LET loaded == IF needAutoInject(concrete)
                       THEN Require(st, RemoveFirstPlus(concrete.s))
                       ELSE Ok(st, concrete)
       IN  IF loaded.k # "ok" THEN loaded
           ELSE LET deps == getDependencies(loaded.st, parseFunctionArguments(loaded.v),
                                            parameters, depth)
                IN  IF deps.k # "ok" THEN instantiateClass(deps.st, loaded.v, <<>>)
                    ELSE instantiateClass(deps.st, loaded.v, deps.v)

build(st, concrete, parameters, depth) ==
  IF ~IsFn(concrete) /\ ~IsStr(concrete) THEN Throw(st, "TypeError")
  ELSE LET loaded == IF needAutoInject(concrete)
                       THEN Require(st, RemoveFirstPlus(concrete.s))
                       ELSE Ok(st, concrete)
       IN  IF loaded.k # "ok" THEN loaded
           ELSE LET constructor == loaded.v
                    dependencyArguments == parseFunctionArguments(constructor)
                    deps == getDependencies(loaded.st, dependencyArguments, parameters, depth)
                IN  IF deps.k # "ok" THEN deps
                    ELSE instantiateClass(deps.st, constructor, deps.v)

\* A faulty make: a failure is remembered under the name in the resolved map,
\* and a name remembered there that has no instance and no binding is not
\* tried again.
makeCachingFailure(st, abstract0, parameters, depth) ==
  IF depth > MaxDepth THEN Throw(st, "RangeError")
  ELSE
  LET abstract == getAlias(st, abstract0)
  IN  IF Has(st.instances, abstract) /\ Truthy(st.instances[abstract])
        THEN Ok(st, st.instances[abstract])
      ELSE IF abstract \in st.resolved /\ ~Has(st.bindings, abstract)
                /\ ~Has(st.instances, abstract)
        THEN Throw(st, "NotFound")
      ELSE
      LET concrete == getConcrete(st, abstract)
          object == IF isBuildable(concrete, abstract)
                      THEN build(st, concrete, parameters, depth)
                    ELSE IF IsStr(concrete)
                      THEN make(st, concrete.s, parameters, depth + 1)
                    ELSE Throw(st, "TypeError")
      IN  IF object.k # "ok"
            THEN Throw([object.st EXCEPT !.resolved = @ \cup {abstract}], object.k)
          ELSE IF isShared(object.st, abstract)
            THEN Ok([object.st EXCEPT !.instances = Put(@, abstract, object.v),
                                      !.resolved = @ \cup {abstract}], object.v)
            ELSE Ok([object.st EXCEPT !.resolved = @ \cup {abstract}], object.v)

\* A faulty make: the resolved marker is set only when the object is cached.
makeMarkingSharedOnly(st, abstract0, parameters, depth) ==
  IF depth > MaxDepth THEN Throw(st, "RangeError")
  ELSE
  LET abstract == getAlias(st, abstract0)
  IN  IF Has(st.instances, abstract) /\ Truthy(st.instances[abstract])
        THEN Ok(st, st.instances[abstract])
      ELSE
      LET concrete == getConcrete(st, abstract)
          object == IF isBuildable(concrete, abstract)
                      THEN build(st, concrete, parameters, depth)
                    ELSE IF IsStr(concrete)
                      THEN make(st, concrete.s, parameters, depth + 1)
                    ELSE Throw(st, "TypeError")
      IN  IF object.k # "ok" THEN object
          ELSE IF isShared(object.st, abstract)
            THEN Ok([object.st EXCEPT !.instances = Put(@, abstract, object.v),
                                      !.resolved = @ \cup {abstract}], object.v)
            ELSE object

\* A faulty make: the resolved marker is set before the object is obtained.
makeMarkingFirst(st, abstract0, parameters, depth) ==
  IF depth > MaxDepth THEN Throw(st, "RangeError")
  ELSE
  LET abstract == getAlias(st, abstract0)
  IN  IF Has(st.instances, abstract) /\ Truthy(st.instances[abstract])
        THEN Ok(st, st.instances[abstract])
      ELSE
      LET concrete == getConcrete(st, abstract)
          st0 == [st EXCEPT !.resolved = @ \cup {abstract}]
          object == IF isBuildable(concrete, abstract)
                      THEN build(st0, concrete, parameters, depth)
                    ELSE IF IsStr(concrete)
                      THEN make(st0, concrete.s, parameters, depth + 1)
                    ELSE Throw(st0, "TypeError")
      IN  IF object.k # "ok" THEN object
          ELSE IF isShared(object.st, abstract)
            THEN Ok([object.st EXCEPT !.instances = Put(@, abstract, object.v)], object.v)
            ELSE object

make(st, abstract0, parameters, depth) ==
  IF depth > MaxDepth THEN Throw(st, "RangeError")
  ELSE
  LET abstract == getAlias(st, abstract0)
  IN  IF Has(st.instances, abstract) /\ Truthy(st.instances[abstract])
        THEN Ok(st, st.instances[abstract])
      ELSE
      LET concrete == getConcrete(st, abstract)
          object == IF isBuildable(concrete, abstract)
                      THEN build(st, concrete, parameters, depth)
                    ELSE IF IsStr(concrete)
                      THEN make(st, concrete.s, parameters, depth + 1)
                    ELSE Throw(st, "TypeError")
      IN  IF object.k # "ok" THEN object
          ELSE LET st1 == object.st
                   st2 == IF isShared(st1, abstract)
                            THEN [st1 EXCEPT !.instances = Put(@, abstract, object.v)]
                            ELSE st1
               IN  Ok([st2 EXCEPT !.resolved = @ \cup {abstract}], object.v)

\* ------------------------------------------------------------------ invoker
\* What call leaves: as Ok/Throw, and P, the caller's override map afterwards.
WithP(r, P) == [st |-> r.st, k |-> r.k, v |-> r.v, P |-> P]

isCallableWithAtSign(callback) ==
  IsStr(callback) /\ \E i \in 1..Len(callback.s) : callback.s[i] = "@"

\* instance[method]
Property(inst, m) ==
  IF inst.t = "obj" /\ m = Str(M) THEN Method(inst.f) ELSE Undefined

\* A faulty getCallRefrector: for an [instance, method] pair the parameter
\* list read is the constructor's.
getCallRefrectorOfConstructor(callback) ==
  IF IsFn(callback) THEN callback
  ELSE IF callback.t = "pair" /\ callback.inst.t = "obj" THEN Fn(callback.inst.f)
  ELSE Undefined

\* The function whose parameter list is read: Undefined when the callback is
\* neither a function nor an [instance, method] pair naming one.
getCallRefrector(callback) ==
  IF IsFn(callback) THEN callback
  ELSE IF callback.t = "pair" THEN Property(callback.inst, callback.m)
  ELSE Undefined

executeCallable(st, callback, dependencies) ==
  IF IsFn(callback)
    THEN Ok(Emit(st, [e |-> "apply", fn |-> callback, this |-> callback, args |-> dependencies]), Ret)
    ELSE Ok(Emit(st, [e |-> "apply", fn |-> Property(callback.inst, callback.m),
                      this |-> callback.inst, args |-> dependencies]), Ret)

\* One parameter of the callable: r carries the container, the dependencies
\* pushed so far (v) and the override map (P).
\* dependencies.push(made): a make that threw ends the call.
pushMade(r, made) ==
  IF made.k # "ok" THEN WithP(made, r.P)
  ELSE [r EXCEPT !.st = made.st, !.v = Append(@, made.v)]

\* A faulty addDependencyForCallParameter: the override that is used stays in
\* the map.
addDependencyKeepingOverride(r, parameter, depth) ==
  IF Has(r.P, parameter)
    THEN [r EXCEPT !.v = Append(@, r.P[parameter])]
    ELSE pushMade(r, make(r.st, parameter, r.P, depth + 1))

addDependencyForCallParameter(r, parameter, depth) ==
  IF Has(r.P, parameter)
    THEN [r EXCEPT !.v = Append(@, r.P[parameter]), !.P = Delete(@, parameter)]
    ELSE pushMade(r, make(r.st, parameter, r.P, depth + 1))

RECURSIVE forEachCallParameter(_, _, _)
forEachCallParameter(r, names, depth) ==
  IF names = <<>> \/ r.k # "ok" THEN r
  ELSE forEachCallParameter(addDependencyForCallParameter(r, Head(names), depth),
                            Tail(names), depth)

getMethodDependencies(st, callback, parameters, depth) ==
  LET fn == getCallRefrector(callback)
  IN  IF fn = Undefined THEN WithP(Throw(st, "TypeError"), parameters)
      ELSE forEachCallParameter(WithP(Ok(st, <<>>), parameters),
                                parseFunctionArguments(fn), depth)

\* exception(name, message): the framework's global helper, which throws.
exception(st, name) == Throw(st, name)

\* return this.executeCallable(callback, dependencies), once the
\* dependencies are resolved.
executeWith(deps, callback) ==
  IF deps.k # "ok" THEN deps
  ELSE WithP(executeCallable(deps.st, callback, deps.v), deps.P)

RECURSIVE call(_, _, _, _, _)

\* A faulty callClass: the instance is made before the method name is looked at.
callClassMakingFirst(st, target, parameters, defaultMethod, depth) ==
  IF ~IsStr(target) THEN WithP(Throw(st, "TypeError"), parameters)
  ELSE LET segments == Split(target.s, "@")
           method == IF Len(segments) = 2 THEN Str(segments[2]) ELSE defaultMethod
           made == make(st, segments[1], parameters, depth + 1)
       IN  IF made.k # "ok" THEN WithP(made, parameters)
           ELSE IF ~Truthy(method)
             THEN WithP(exception(made.st, "InvalidArgumentException"), parameters)
             ELSE WithP(made, parameters)

\* this.call([made, method], parameters): a make that threw ends the call.
callMade(made, method, parameters, depth) ==
  IF made.k # "ok" THEN WithP(made, parameters)
  ELSE call(made.st, Pair(made.v, method), parameters, Undefined, depth)

callClass(st, target, parameters, defaultMethod, depth) ==
  IF ~IsStr(target) THEN WithP(Throw(st, "TypeError"), parameters)
  ELSE LET segments == Split(target.s, "@")
           method == IF Len(segments) = 2 THEN Str(segments[2]) ELSE defaultMethod
       IN  IF ~Truthy(method)
             THEN WithP(exception(st, "InvalidArgumentException"), parameters)
             ELSE callMade(make(st, segments[1], parameters, depth + 1),
                           method, parameters, depth)

call(st, callback, parameters, defaultMethod, depth) ==
  IF isCallableWithAtSign(callback) \/ Truthy(defaultMethod)
    THEN callClass(st, callback, parameters, defaultMethod, depth)
    ELSE executeWith(getMethodDependencies(st, callback, parameters, depth), callback)

\* ------------------------------------------------------------------ state
VARIABLES
  bindings,   \* abstract -> [concrete, shared]
  instances,  \* abstract -> value
  resolved,   \* the abstracts marked resolved
  aliases,    \* alias -> abstract
  modules,    \* what the external Loader finds: module name -> function
  nextId,     \* the identity the next constructed object gets
  calls,      \* API calls performed
  last,       \* the last API call: its arguments, outcome and events
  law         \* per name, what the singleton law holds make to (history)

vars == <<bindings, instances, resolved, aliases, modules, nextId, calls, last, law>>

\* The container as the operations see it, with an empty event log.
Container ==
  [bindings |-> bindings, instances |-> instances, resolved |-> resolved,
   aliases |-> aliases, modules |-> modules, nextId |-> nextId, log |-> <<>>]

\* ------------------------------------------------------------------ inputs
\* What the calls of a run are given.  A string concrete names an abstract.
Concretes == {Fn("F0"), Fn("F1"), Fn("F2"), Str(B)}
InstanceValues == {Zero, Bar}
Overrides == {Empty, A :> Zero, (A :> Bar) @@ (B :> Zero)}
\* The Loader finds module b, which exports the function L0, and no module a.
Loaders == {B :> "L0"}

NoCall ==
  [op |-> "none", abstract |-> <<>>, arg |-> Undefined, shared |-> FALSE,
   P |-> Empty, k |-> "ok", v |-> Undefined, log |-> <<>>, P2 |-> Empty,
   defaultMethod |-> Undefined,
   prev |-> [op |-> "none", abstract |-> <<>>, arg |-> Undefined]]

\* ------------------------------------------------------------------ history
\* The singleton law of a name: off (no shared registration in force), armed
\* (registered shared, not made since) or held to v, the object the first make
\* after the registration returned; n counts the makes since, up to 2.
LawOff == [s |-> "off", v |-> Undefined, n |-> 0]
LawArmed == [s |-> "armed", v |-> Undefined, n |-> 0]

\* The law of name x after the call `record` on container `st`.  `ends` are
\* the calls, besides a re-bind, that end the law for the name they are given.
LawStep(track, x, st, record, ends) ==
  LET binds == \/ record.op \in {"bind", "singleton"}
               \/ record.op = "bindIf" /\ ~bound(st, x)
  IN  CASE record.op = "forgotAll" -> LawOff
        [] record.op \in ends /\ record.abstract = x -> LawOff
        [] "alias" \in ends /\ record.op = "alias" /\ record.arg = Str(x) -> LawOff
        [] binds /\ record.abstract = x ->
             IF record.shared /\ ("alias" \notin ends \/ ~Has(st.aliases, x))
               THEN LawArmed ELSE LawOff
        [] record.op = "make" /\ record.abstract = x /\ record.k = "ok" ->
             IF track.s = "armed" THEN [s |-> "held", v |-> record.v, n |-> 1]
             ELSE IF track.s = "held" THEN [track EXCEPT !.n = 2]
             ELSE track
        [] OTHER -> track

\* stated: the law as claimed, ended by forgetInstance, forgotAll and a re-bind.
\* actual: ended also by instance(n, v) and alias(x, n), and not in force for
\* a name that is an alias key when it is registered.
LawNext(record) ==
  [x \in Names |->
     [stated |-> LawStep(law[x].stated, x, Container, record, {"forgetInstance"}),
      actual |-> LawStep(law[x].actual, x, Container, record,
                         {"forgetInstance", "instance", "alias"})]]

\* The container is left as st, the call is recorded.
Leave(st, record) ==
  /\ st.nextId <= MaxObjects + 1
  /\ bindings' = st.bindings
  /\ instances' = st.instances
  /\ resolved' = st.resolved
  /\ aliases' = st.aliases
  /\ nextId' = st.nextId
  /\ calls' = calls + 1
  /\ last' = [record EXCEPT !.log = st.log,
                             !.prev = [op |-> last.op, abstract |-> last.abstract,
                                       arg |-> last.arg]]
  /\ law' = LawNext(record)
  /\ UNCHANGED modules

Init ==
  /\ bindings = Empty
  /\ instances = Empty
  /\ resolved = {}
  /\ aliases = Empty
  /\ modules \in Loaders
  /\ nextId = 1
  /\ calls = 0
  /\ last = NoCall
  /\ law = [x \in Names |-> [stated |-> LawOff, actual |-> LawOff]]

\* ------------------------------------------------------------------ actions
Bind(abstract, concrete, shared) ==
  /\ calls < MaxCalls
  /\ Leave(bind(Container, abstract, concrete, shared),
        [NoCall EXCEPT !.op = "bind", !.abstract = abstract, !.arg = concrete,
                       !.shared = shared])

BindIf(abstract, concrete, shared) ==
  /\ calls < MaxCalls
  /\ Leave(bindIf(Container, abstract, concrete, shared),
        [NoCall EXCEPT !.op = "bindIf", !.abstract = abstract, !.arg = concrete,
                       !.shared = shared])

Singleton(abstract, concrete) ==
  /\ calls < MaxCalls
  /\ Leave(singleton(Container, abstract, concrete),
        [NoCall EXCEPT !.op = "singleton", !.abstract = abstract, !.arg = concrete,
                       !.shared = TRUE])

Alias(abstract, aliasName) ==
  /\ calls < MaxCalls
  /\ Leave(alias(Container, abstract, aliasName),
        [NoCall EXCEPT !.op = "alias", !.abstract = abstract, !.arg = Str(aliasName)])

Instance(abstract, value) ==
  /\ calls < MaxCalls
  /\ Leave(instance(Container, abstract, value),
        [NoCall EXCEPT !.op = "instance", !.abstract = abstract, !.arg = value])

ForgetInstance(abstract) ==
  /\ calls < MaxCalls
  /\ Leave(forgetInstance(Container, abstract),
        [NoCall EXCEPT !.op = "forgetInstance", !.abstract = abstract])

ForgotAll ==
  /\ calls < MaxCalls
  /\ Leave(forgotAll(Container), [NoCall EXCEPT !.op = "forgotAll"])

Make(abstract, parameters) ==
  /\ calls < MaxCalls
  /\ LET r == make(Container, abstract, parameters, 1)
     IN  Leave(r.st, [NoCall EXCEPT !.op = "make", !.abstract = abstract, !.P = parameters,
                                 !.k = r.k, !.v = r.v, !.P2 = parameters])

Call(callback, parameters, defaultMethod) ==
  /\ calls < MaxCalls
  /\ LET r == call(Container, callback, parameters, defaultMethod, 1)
     IN  Leave(r.st, [NoCall EXCEPT !.op = "call", !.arg = callback, !.P = parameters,
                                 !.k = r.k, !.v = r.v, !.P2 = r.P,
                                 !.defaultMethod = defaultMethod])

CallClass(target, parameters, defaultMethod) ==
  /\ calls < MaxCalls
  /\ LET r == callClass(Container, target, parameters, defaultMethod, 1)
     IN  Leave(r.st, [NoCall EXCEPT !.op = "callClass", !.arg = target, !.P = parameters,
                                 !.k = r.k, !.v = r.v, !.P2 = r.P,
                                 !.defaultMethod = defaultMethod])

Next ==
  \/ \E n \in Names, c \in Concretes, s \in BOOLEAN : Bind(n, c, s)
  \/ \E n \in Names : BindIf(n, Fn("F0"), FALSE)
  \/ \E n \in Names : Singleton(n, Fn("F0"))
  \/ \E n \in Names : \E a \in Names \ {n} : Alias(n, a)
  \/ \E n \in Names, v \in InstanceValues : Instance(n, v)
  \/ \E n \in Names : ForgetInstance(n)
  \/ ForgotAll
  \/ \E n \in Names, P \in Overrides : Make(n, P)

Spec == Init /\ [][Next]_vars

\* The invoker with the registrations it resolves against.
Callables == {Fn("F2"), Str(A \o <<"@">> \o M), Str(B \o <<"@">> \o M)}

NextCall ==
  \/ \E n \in Names, c \in {Fn("F0"), Fn("F1")}, s \in BOOLEAN : Bind(n, c, s)
  \/ \E n \in Names : \E a \in Names \ {n} : Alias(n, a)
  \/ \E n \in Names, v \in InstanceValues : Instance(n, v)
  \/ \E c \in Callables, P \in Overrides : Call(c, P, Undefined)

SpecCall == Init /\ [][NextCall]_vars

\* The Loader's environment: a module the Loader did not find is installed.
\* L1 is a function with the parameter b.
Install(name, f) ==
  /\ ~Has(modules, name)
  /\ modules' = Put(modules, name, f)
  /\ UNCHANGED <<bindings, instances, resolved, aliases, nextId, calls, last, law>>

\* The resolver against a Loader whose modules appear over time.
NextLoader ==
  \/ \E n \in Names, c \in {Fn("F1"), Fn("F2")}, s \in BOOLEAN : Bind(n, c, s)
  \/ \E n \in Names : ForgetInstance(n)
  \/ \E n \in Names, P \in Overrides : Make(n, P)
  \/ \E n \in Names, f \in {"L0", "L1"} : Install(n, f)

SpecLoader == Init /\ [][NextLoader]_vars

\* Class-method dispatch: targets with and without a method segment, with
\* and without a default method.
Targets == {Str(A), Str(A \o <<"@">>), Str(B \o <<"@">> \o M)}
DefaultMethods == {Undefined, Str(M)}

NextDispatch ==
  \/ \E n \in Names, c \in {Fn("F0"), Fn("F1")} : Bind(n, c, FALSE)
  \/ \E n \in Names : Instance(n, Bar)
  \/ \E c \in Targets, P \in {Empty, A :> Zero}, d \in DefaultMethods : Call(c, P, d)
  \/ \E c \in Targets, d \in DefaultMethods : CallClass(c, A :> Zero, d)

SpecDispatch == Init /\ [][NextDispatch]_vars

\* Three names: an alias of an alias has three different names, and a name
\* can depend on another that resolves and on one that does not (F3 has the
\* parameters a and d, and d is known to nobody).
C == <<"c">>

NextAlias ==
  \/ \E n \in {A, B, C} : \E a \in {A, B, C} \ {n} : Alias(n, a)
  \/ \E n \in {B, C}, c \in {Fn("F0"), Fn("F3"), Str(C)}, s \in BOOLEAN : Bind(n, c, s)
  \/ \E n \in {B, C}, v \in InstanceValues : Instance(n, v)
  \/ \E n \in {A, B, C}, P \in {Empty, A :> Zero} : Make(n, P)

SpecAlias == Init /\ [][NextAlias]_vars

\* Registration, resolution and invocation together, for what must hold of
\* all three.
NextMarkers ==
  \/ \E n \in Names, c \in {Fn("F1"), Str(B)}, s \in BOOLEAN : Bind(n, c, s)
  \/ \E n \in Names : BindIf(n, Fn("F0"), FALSE)
  \/ \E n \in Names : \E a \in Names \ {n} : Alias(n, a)
  \/ \E v \in InstanceValues : Instance(A, v)
  \/ \E n \in Names, P \in {Empty, A :> Zero} : Make(n, P)
  \/ \E c \in {Fn("F2"), Str(B \o <<"@">> \o M)} : Call(c, Empty, Undefined)

SpecMarkers == Init /\ [][NextMarkers]_vars

\* Override maps against dependencies that have parameters of their own:
\* a and c can be bound to a constructible with the parameter b, b to one
\* with the parameter a, c to the string naming b; a can be registered.
NextOverrides ==
  \/ \E n \in {A, C} : Bind(n, Fn("L1"), FALSE)
  \/ \E s \in BOOLEAN : Bind(B, Fn("F1"), s)
  \/ Bind(C, Str(B), FALSE)
  \/ Instance(A, Bar)
  \/ \E n \in {B, C}, P \in {Empty, A :> Zero} : Make(n, P)
  \/ \E c \in {Fn("F2"), Str(C \o <<"@">> \o M)}, P \in {B :> Zero, (A :> Bar) @@ (B :> Zero)} :
       Call(c, P, Undefined)

SpecOverrides == Init /\ [][NextOverrides]_vars

\* ------------------------------------------------------------------ claims
\* C1 (as stated).  Singleton law: after singleton(n, C), every make(n) returns
\* the object the first make(n) after the registration returned, whatever the
\* parameters and whatever other calls come between, until forgetInstance(n),
\* forgotAll or a re-bind of n.
C1_SingletonLawAsStated ==
  (last.op = "make" /\ last.k = "ok" /\ law[last.abstract].stated.s = "held")
    => last.v = law[last.abstract].stated.v

\* C1 (amended).  The same law for a name that is no alias key when it is
\* registered, until forgetInstance(n), forgotAll, a re-bind of n,
\* instance(n, v) or alias(x, n).
C1_SingletonLaw ==
  (last.op = "make" /\ last.k = "ok" /\ law[last.abstract].actual.s = "held")
    => last.v = law[last.abstract].actual.v

\* A second make of a singleton, with an override map, after another call
\* came between the two makes.
C1_Witness ==
  /\ last.op = "make" /\ last.k = "ok" /\ last.P # Empty
  /\ last.prev.op \notin {"make", "singleton", "bind"}
  /\ law[last.abstract].actual.s = "held"
  /\ law[last.abstract].actual.n = 2
  /\ last.v.t = "obj"

\* The ordered parameter names the functions declare.
Declared(f) ==
  CASE f = "F0" -> <<>>
    [] f = "F1" -> <<A>>
    [] f = "F2" -> <<B, A>>
    [] f = "F3" -> <<A, <<"d">>>>
    [] f = "L0" -> <<>>
    [] f = "L1" -> <<B>>

\* The call ended by constructing the value it returned, from function f.
BuiltFrom(log, v, f) ==
  /\ log # <<>>
  /\ log[Len(log)].e = "new"
  /\ log[Len(log)].obj = v
  /\ v.t = "obj" /\ v.f = f

Requires(log, name) == \E i \in 1..Len(log) : log[i] = [e |-> "require", name |-> name]
Constructs(log) == \E i \in 1..Len(log) : log[i].e = "new"

\* C2.  Instance override law: immediately after instance(n, v), for every
\* value v and every prior state, make(n) returns exactly v, with no
\* construction and no Loader call.
C2_InstanceOverride ==
  (last.op = "make" /\ last.prev.op = "instance" /\ last.prev.abstract = last.abstract)
    => (last.k = "ok" /\ last.v = last.prev.arg /\ last.log = <<>>)

\* C3 (as stated).  After bind(n, C2, shared), C2 a constructible, instances
\* holds no entry for n and the next make(n) that returns has built its value
\* from C2.
C3_RebindEvictsAsStated ==
  /\ last.op = "bind" => ~Has(instances, last.abstract)
  /\ (/\ last.op = "make" /\ last.k = "ok"
      /\ last.prev.op = "bind" /\ last.prev.abstract = last.abstract
      /\ IsFn(last.prev.arg))
       => BuiltFrom(last.log, last.v, last.prev.arg.f)

\* C3 (amended).  After bind(n, C2, shared), C2 a constructible, instances
\* holds no entry for n, and if n is no alias key the next make(n) that
\* returns has built its value from C2.
C3_RebindEvicts ==
  /\ last.op = "bind" => ~Has(instances, last.abstract)
  /\ (/\ last.op = "make" /\ last.k = "ok"
      /\ last.prev.op = "bind" /\ last.prev.abstract = last.abstract
      /\ IsFn(last.prev.arg)
      /\ ~Has(aliases, last.abstract))
       => BuiltFrom(last.log, last.v, last.prev.arg.f)

\* A make that follows a bind of the same name built its value from the new
\* binding, objects having been built before.
C3_Witness ==
  /\ last.op = "make" /\ last.k = "ok"
  /\ last.prev.op = "bind" /\ last.prev.abstract = last.abstract
  /\ IsFn(last.prev.arg)
  /\ ~Has(aliases, last.abstract)
  /\ BuiltFrom(last.log, last.v, last.prev.arg.f)
  /\ last.v.id > 1

\* The arguments the claim gives a constructor with parameter names `names`
\* under override map P: P[p] where P has p, otherwise what make(p) returns.
RECURSIVE ExpectedArgs(_, _, _)
ExpectedArgs(st, names, P) ==
  IF names = <<>> THEN <<>>
  ELSE LET r == IF Has(P, Head(names))
                  THEN Ok(st, P[Head(names)])
                  ELSE make(st, Head(names), Empty, 2)
       IN  <<r.v>> \o ExpectedArgs(r.st, Tail(names), P)

C5_ForgetInstance ==
  /\ last.op = "forgetInstance"
       => /\ ~Has(bindings, last.abstract)
          /\ ~Has(instances, last.abstract)
          /\ ~Has(aliases, last.abstract)
  /\ (last.op = "make" /\ last.prev.op = "forgetInstance"
        /\ last.prev.abstract = last.abstract)
       => /\ last.log # <<>>
          /\ last.log[1] = [e |-> "require", name |-> last.abstract]
          /\ ~Has(modules, last.abstract) => last.k = "NotFound"
          /\ Has(modules, last.abstract)
               => last.k = "ok" /\ BuiltFrom(last.log, last.v, modules[last.abstract])

\* A make that follows forgetInstance of the same name, once resolved, and
\* now fails in the Loader.
C5_Witness ==
  /\ last.op = "make" /\ last.k = "NotFound"
  /\ last.prev.op = "forgetInstance" /\ last.prev.abstract = last.abstract
  /\ last.abstract \in resolved
  /\ Requires(last.log, last.abstract)

\* make(x, P) in the container as it is left the container as it is next,
\* with the outcome recorded there.
SameMake(x, P) ==
  LET r == make(Container, x, P, 1)
  IN  /\ r.k = last'.k /\ r.v = last'.v /\ r.st.log = last'.log
      /\ r.st.bindings = bindings' /\ r.st.instances = instances'
      /\ r.st.aliases = aliases' /\ r.st.resolved = resolved'

\* C6 (as stated).  Alias law: after alias(n, a), in any reachable state,
\* make(a) returns what make(n) returns there (the identical object when n is
\* shared, a value built from the same concrete otherwise) and leaves the
\* container as make(n) leaves it.
C6_AliasLawAsStated ==
  [][(last'.op = "make" /\ Has(aliases, last'.abstract))
       => SameMake(aliases[last'.abstract], last'.P)]_vars

\* C6 (amended).  The same, provided n is not itself an alias key.
C6_AliasLaw ==
  [][(last'.op = "make" /\ Has(aliases, last'.abstract)
        /\ ~Has(aliases, aliases[last'.abstract]))
       => SameMake(aliases[last'.abstract], last'.P)]_vars

\* make(a) returned the object cached for the shared name a is an alias of.
C6_Witness ==
  /\ last.op = "make" /\ last.k = "ok" /\ last.v.t = "obj"
  /\ Has(aliases, last.abstract)
  /\ ~Has(aliases, aliases[last.abstract])
  /\ Has(bindings, aliases[last.abstract])
  /\ bindings[aliases[last.abstract]].shared
  /\ Has(instances, aliases[last.abstract])
  /\ instances[aliases[last.abstract]] = last.v

\* C7.  bindIf(n, C2, s) leaves bindings, instances, aliases and resolved
\* unchanged whenever n has a binding, a cached or registered instance, or is
\* an alias key.
C7_BindIfFrame ==
  [][(/\ last'.op = "bindIf"
      /\ \/ Has(bindings, last'.abstract)
         \/ Has(instances, last'.abstract)
         \/ Has(aliases, last'.abstract))
       => UNCHANGED <<bindings, instances, aliases, resolved>>]_vars

\* n is bound non-shared to a constructible and has no instance registered.
NonShared(n) ==
  /\ Has(bindings, n) /\ IsFn(bindings[n].concrete) /\ ~bindings[n].shared
  /\ ~Has(instances, n)

\* C8 (as stated).  For n bound non-shared to a constructible C, with no
\* instance registered for n, each make(n) that returns has invoked C's
\* construction and returns its result, and no make(n) puts an entry for n
\* into instances.
C8_NonSharedAsStated ==
  [][(last'.op = "make" /\ NonShared(last'.abstract))
       => /\ ~Has(instances', last'.abstract)
          /\ last'.k = "ok"
               => BuiltFrom(last'.log, last'.v, bindings[last'.abstract].concrete.f)]_vars

\* C8 (amended).  The same, provided n is no alias key.
C8_NonShared ==
  [][(last'.op = "make" /\ NonShared(last'.abstract) /\ ~Has(aliases, last'.abstract))
       => /\ ~Has(instances', last'.abstract)
          /\ last'.k = "ok"
               => BuiltFrom(last'.log, last'.v, bindings[last'.abstract].concrete.f)]_vars

\* Two makes in a row of a non-shared name: the second built another object.
C8_Witness ==
  /\ last.op = "make" /\ last.k = "ok"
  /\ last.prev.op = "make" /\ last.prev.abstract = last.abstract
  /\ Has(bindings, last.abstract) /\ ~bindings[last.abstract].shared
  /\ IsFn(bindings[last.abstract].concrete)
  /\ ~Has(aliases, last.abstract)
  /\ ~Has(instances, last.abstract)
  /\ BuiltFrom(last.log, last.v, bindings[last.abstract].concrete.f)
  /\ last.v.id >= 2

\* The ordered parameter names the methods declare.
DeclaredMethod(f) ==
  CASE f = "F0" -> <<A>>
    [] f = "F1" -> <<B, A>>
    [] f = "F2" -> <<>>
    [] f = "F3" -> <<>>
    [] f = "L0" -> <<B>>
    [] f = "L1" -> <<>>

\* The arguments of a callable with parameter names `names` under override
\* map P: P[p] where P has p, otherwise what make returns for p, the
\* overrides not yet used being handed on.
RECURSIVE ExpectedCallArgs(_, _, _)
ExpectedCallArgs(st, names, P) ==
  IF names = <<>> THEN <<>>
  ELSE IF Has(P, Head(names))
    THEN <<P[Head(names)]>> \o ExpectedCallArgs(st, Tail(names), Delete(P, Head(names)))
  ELSE LET r == make(st, Head(names), P, 2)
       IN  <<r.v>> \o ExpectedCallArgs(r.st, Tail(names), P)

C10_CallAsBuild ==
  [][(last'.op = "call" /\ IsFn(last'.arg))
       => LET asBuild == getDependencies(Container, Declared(last'.arg.f), last'.P, 1)
              log == last'.log
          IN  /\ asBuild.k = last'.k
              /\ asBuild.st.instances = instances'
              /\ asBuild.st.resolved = resolved'
              /\ last'.k = "ok"
                   => /\ log[Len(log)].args = asBuild.v
                      /\ SubSeq(log, 1, Len(log) - 1) = asBuild.st.log]_vars

\* n is bound to a constructible, is no alias key and has no instance
\* registered: make(n) builds the binding's constructible.
BuildsBinding(n) ==
  /\ ~Has(aliases, n)
  /\ ~Has(instances, n)
  /\ Has(bindings, n) /\ IsFn(bindings[n].concrete)

AfterAt(s) ==
  IF \E i \in 1..Len(s) : s[i] = "@"
    THEN LET i == CHOOSE j \in 1..Len(s) : s[j] = "@" /\ \A k \in 1..(j - 1) : s[k] # "@"
         IN  SubSeq(s, i + 1, Len(s))
    ELSE <<>>

\* The step is a class-method dispatch: callClass, or a call that delegates to
\* it (a target containing "@", or a default method given).
Dispatched(record) ==
  /\ IsStr(record.arg)
  /\ \/ record.op = "callClass"
     \/ record.op = "call"
          /\ ((\E i \in 1..Len(record.arg.s) : record.arg.s[i] = "@")
                \/ record.defaultMethod # Undefined)

\* C12.  A class-method dispatch whose target has no method segment after "@"
\* and which is given no default method fails with the InvalidArgument
\* 'method not provided' error before any make: no event happens and
\* bindings, instances, aliases and resolved are unchanged.
C12_MethodNotProvided ==
  [][(Dispatched(last') /\ AfterAt(last'.arg.s) = <<>> /\ last'.defaultMethod = Undefined)
       => /\ last'.k = "InvalidArgumentException"
          /\ last'.v = Undefined
          /\ last'.log = <<>>
          /\ UNCHANGED <<bindings, instances, aliases, resolved, nextId>>]_vars

\* call('a@', P) with a bound to a constructible failed for want of a method.
C12_Witness ==
  /\ last.op = "call" /\ last.arg = Str(A \o <<"@">>)
  /\ last.defaultMethod = Undefined
  /\ last.k = "InvalidArgumentException"
  /\ Has(bindings, A) /\ IsFn(bindings[A].concrete)
  /\ ~Has(instances, A) /\ A \notin resolved
  /\ last.log = <<>>

\* A freshly constructed container, given the Loader and the object
\* identities of the present one.
Fresh ==
  [bindings |-> Empty, instances |-> Empty, resolved |-> {}, aliases |-> Empty,
   modules |-> modules, nextId |-> nextId, log |-> <<>>]

\* C13.  forgotAll leaves bindings, instances, aliases and resolved empty, as
\* in a freshly constructed container, and the make that follows it behaves
\* as on a new container: same outcome, same events, same container left.
C13_ForgotAllResets ==
  [][/\ last'.op = "forgotAll"
          => /\ bindings' = Empty /\ instances' = Empty
             /\ aliases' = Empty /\ resolved' = {}
     /\ (last.op = "forgotAll" /\ last'.op = "make")
          => LET r == make(Fresh, last'.abstract, last'.P, 1)
             IN  /\ r.k = last'.k /\ r.v = last'.v /\ r.st.log = last'.log
                 /\ r.st.bindings = bindings' /\ r.st.instances = instances'
                 /\ r.st.aliases = aliases' /\ r.st.resolved = resolved']_vars

\* A make right after forgotAll, objects having been built before the reset.
C13_Witness ==
  /\ last.op = "make" /\ last.k = "ok"
  /\ last.prev.op = "forgotAll"
  /\ nextId > 2
  /\ bindings = Empty /\ aliases = Empty

\* x1 is bound to a string naming the different abstract x2, and x2 is bound
\* to a constructible: the chain x1 -> x2 -> C.
Chain(x1) ==
  /\ Has(bindings, x1) /\ IsStr(bindings[x1].concrete)
  /\ bindings[x1].concrete.s # x1
  /\ Has(bindings, bindings[x1].concrete.s)
  /\ IsFn(bindings[bindings[x1].concrete.s].concrete)

\* x is no alias key and has no cached or registered instance.
Plain(x) == ~Has(aliases, x) /\ ~Has(instances, x)

\* n's concrete is a constructible or n's own name.
Direct(n) ==
  /\ Has(bindings, n)
  /\ (IsFn(bindings[n].concrete) \/ bindings[n].concrete = Str(n))

\* C14 (as stated).  For a chain x1 -> x2 -> C, every make(x1) that returns
\* has built its value from C, after one make cycle per name of the chain.
C14_ChainAsStated ==
  [][(last'.op = "make" /\ last'.k = "ok" /\ Chain(last'.abstract))
       => LET x2 == bindings[last'.abstract].concrete.s
          IN  /\ BuiltFrom(last'.log, last'.v, bindings[x2].concrete.f)
              /\ {last'.abstract, x2} \subseteq resolved']_vars

\* C14 (amended).  For a chain x1 -> x2 -> C none of whose names is an alias
\* key or has a cached or registered instance, make(x1, P) ends as the nested
\* make(x2, P) ends; when it returns it has built its value from C and marked
\* both names resolved.  A binding whose concrete is a constructible or its
\* own name is built directly: make ends as build of that concrete ends, and
\* marks no name that build did not mark but its own.
C14_Chain ==
  [][/\ (last'.op = "make" /\ Chain(last'.abstract) /\ Plain(last'.abstract)
           /\ Plain(bindings[last'.abstract].concrete.s))
          => LET x2 == bindings[last'.abstract].concrete.s
                 nested == make(Container, x2, last'.P, 2)
             IN  /\ last'.k = nested.k /\ last'.v = nested.v /\ last'.log = nested.st.log
                 /\ last'.k = "ok"
                      => /\ BuiltFrom(last'.log, last'.v, bindings[x2].concrete.f)
                         /\ {last'.abstract, x2} \subseteq resolved'
     /\ (last'.op = "make" /\ Direct(last'.abstract) /\ Plain(last'.abstract))
          => LET n == last'.abstract
                 built == build(Container, bindings[n].concrete, last'.P, 1)
             IN  /\ last'.k = built.k /\ last'.v = built.v /\ last'.log = built.st.log
                 /\ resolved' = built.st.resolved \cup (IF built.k = "ok" THEN {n} ELSE {})]_vars

\* make of a name bound to the string naming another, itself bound to a
\* constructible with a parameter: built from that constructible, with the
\* override handed on.
C14_Witness ==
  /\ last.op = "make" /\ last.k = "ok" /\ last.P # Empty
  /\ Chain(last.abstract)
  /\ ~Has(aliases, last.abstract) /\ ~Has(aliases, bindings[last.abstract].concrete.s)
  /\ ~Has(instances, last.abstract) /\ ~Has(instances, bindings[last.abstract].concrete.s)
  /\ BuiltFrom(last.log, last.v, bindings[bindings[last.abstract].concrete.s].concrete.f)
  /\ Declared(last.v.f) # <<>>
  /\ {last.abstract, bindings[last.abstract].concrete.s} \subseteq resolved

\* C15.  For a name n with no binding, no instance and no alias, make(n, P)
\* is not an immediate error: its first event is the Loader call for n; it
\* fails there only if the Loader does not find n; otherwise it resolves the
\* parameters of the loaded constructible by override-or-make, fails as they
\* fail, and else returns the object built from it with those arguments.
C15_UnboundLoads ==
  [][(last'.op = "make" /\ ~Has(bindings, last'.abstract) /\ Plain(last'.abstract))
       => LET n == last'.abstract
              asked == Emit(Container, [e |-> "require", name |-> n])
              log == last'.log
          IN  /\ log # <<>> /\ log[1] = [e |-> "require", name |-> n]
              /\ ~Has(modules, n) => (last'.k = "NotFound" /\ Len(log) = 1)
              /\ Has(modules, n)
                   => LET deps == getDependencies(asked, Declared(modules[n]), last'.P, 2)
                      IN  IF deps.k # "ok" THEN last'.k = deps.k
                          ELSE /\ last'.k = "ok"
                               /\ BuiltFrom(log, last'.v, modules[n])
                               /\ log[Len(log)].args = deps.v]_vars

\* make of an unbound name whose module was installed: built from the loaded
\* function, its parameter resolved by another Loader call.
C15_Witness ==
  /\ last.op = "make" /\ last.k = "ok"
  /\ ~Has(bindings, last.abstract) /\ Plain(last.abstract)
  /\ Has(modules, last.abstract) /\ modules[last.abstract] = "L1"
  /\ BuiltFrom(last.log, last.v, "L1")
  /\ last.log[Len(last.log)].args[1].t = "obj"
  /\ Len(last.log) = 4

\* C16.  Dynamic rebinding by instance(): instance(p, v2) replaces whatever
\* was registered for p, and the make of a name h that follows it, h bound
\* non-shared to a constructible whose one parameter is p and P not naming p,
\* is built with v2.
C16_InstanceRebinds ==
  [][/\ last'.op = "instance"
          => (Has(instances', last'.abstract) /\ instances'[last'.abstract] = last'.arg)
     /\ (/\ last.op = "instance" /\ last'.op = "make"
         /\ last'.abstract # last.abstract
         /\ BuildsBinding(last'.abstract)
         /\ ~bindings[last'.abstract].shared
         /\ Declared(bindings[last'.abstract].concrete.f) = <<last.abstract>>
         /\ ~Has(last'.P, last.abstract))
          => /\ last'.k = "ok"
             /\ BuiltFrom(last'.log, last'.v, bindings[last'.abstract].concrete.f)
             /\ last'.log[Len(last'.log)].args = <<last.arg>>]_vars

\* C17.  In every reachable state and for every name n, bound(n) is true
\* exactly when n has a binding, or has a cached or registered instance, or
\* is a registered alias key.
C17_BoundExact ==
  \A n \in Names :
    bound(Container, n) <=> (Has(bindings, n) \/ Has(instances, n) \/ Has(aliases, n))

\* The name make looks up after the one-level alias resolution.
AliasResolved(n) == IF Has(aliases, n) THEN aliases[n] ELSE n

\* C18.  Cached-instance fast path: whenever an instance is cached for the
\* alias-resolved name, make(n, P) returns that instance, with no event
\* (nothing constructed, no Loader call) whatever P is, and leaves bindings,
\* instances and aliases unchanged.
C18_CachedFastPath ==
  [][(last'.op = "make" /\ Has(instances, AliasResolved(last'.abstract)))
       => /\ last'.k = "ok"
          /\ last'.v = instances[AliasResolved(last'.abstract)]
          /\ last'.log = <<>>
          /\ UNCHANGED <<bindings, instances, aliases>>]_vars

\* C19 (as stated).  After every make(n) that returns, served from the
\* instance cache or built, shared or not, resolved holds a marker for the
\* alias-resolved name of n.
C19_ResolvedMarkedAsStated ==
  (last.op = "make" /\ last.k = "ok") => AliasResolved(last.abstract) \in resolved

\* C19 (amended).  After every make(n) that returns a value it obtained by
\* construction (not served from the instance cache), shared or not,
\* resolved holds a marker for the alias-resolved name of n.
C19_ResolvedMarked ==
  (last.op = "make" /\ last.k = "ok" /\ last.log # <<>>)
    => AliasResolved(last.abstract) \in resolved

\* make of an alias of a non-shared name: the name is marked, the alias is not.
C19_Witness ==
  /\ last.op = "make" /\ last.k = "ok" /\ Constructs(last.log)
  /\ Has(aliases, last.abstract)
  /\ Has(bindings, aliases[last.abstract]) /\ ~bindings[aliases[last.abstract]].shared
  /\ ~Has(instances, aliases[last.abstract])
  /\ aliases[last.abstract] \in resolved
  /\ last.abstract \notin resolved

Range(names) == {names[i] : i \in 1..Len(names)}

\* The dependency graph of the container as it is: x -> y when the concrete
\* bound to x is a string naming the other abstract y, or is a constructible
\* with a parameter y; a name with no binding has the parameters of the
\* constructible the Loader finds for it.
Succ(x) ==
  IF Has(bindings, x)
    THEN IF IsFn(bindings[x].concrete) THEN Range(Declared(bindings[x].concrete.f))
         ELSE IF bindings[x].concrete.s # x THEN {bindings[x].concrete.s}
         ELSE {}
  ELSE IF Has(modules, x) THEN Range(Declared(modules[x]))
  ELSE {}

RECURSIVE Closure(_)
Closure(S) ==
  LET T == S \cup UNION {Succ(x) : x \in S}
  IN  IF T = S THEN S ELSE Closure(T)

\* The names reachable from n, n included.
Reachable(n) == Closure({n})

\* x lies on a cycle; the names that lie on a cycle with x.
OnCycle(x) == x \in Closure(Succ(x))
CycleOf(x) == {y \in Closure(Succ(x)) : x \in Closure(Succ(y))}

\* make(x) has a concrete to go on with: x is bound to a constructible or to
\* a string naming another abstract, or the Loader finds x.
Resolvable(x) ==
  IF Has(bindings, x)
    THEN IsFn(bindings[x].concrete) \/ bindings[x].concrete.s # x
    ELSE Has(modules, x)

\* C21 (as stated).  When the graph reachable from n contains a cycle no name
\* of which has a cached instance, make(n) recurses until the stack is
\* exhausted: it returns no value and ends in no other error.
C21_CyclesAsStated ==
  [][(/\ last'.op = "make" /\ last'.P = Empty
      /\ \E x \in Reachable(last'.abstract) :
           OnCycle(x) /\ \A y \in CycleOf(x) : ~Has(instances, y))
       => (last'.k = "RangeError" /\ last'.v = Undefined)]_vars

\* C21 (amended).  When the graph reachable from n contains a cycle, and
\* every name reachable from n is no alias key, has no cached or registered
\* instance and is bound or found by the Loader, make(n) recurses until the
\* stack is exhausted: it returns no value, ends in no other error, and
\* caches and marks no name of a cycle.
C21_Cycles ==
  [][(/\ last'.op = "make" /\ last'.P = Empty
      /\ \E x \in Reachable(last'.abstract) : OnCycle(x)
      /\ \A y \in Reachable(last'.abstract) : Plain(y) /\ Resolvable(y))
       => /\ last'.k = "RangeError" /\ last'.v = Undefined
          /\ \A x \in Reachable(last'.abstract) :
               OnCycle(x) => (~Has(instances', x) /\ (x \in resolved') = (x \in resolved))
          /\ UNCHANGED <<bindings, aliases>>]_vars

\* make(a) with a shared, bound to the string naming b, and b shared, bound to
\* a constructible with the parameter a: the stack was exhausted.
C21_Witness ==
  /\ last.op = "make" /\ last.P = Empty /\ last.k = "RangeError"
  /\ last.abstract = A
  /\ Has(bindings, A) /\ bindings[A] = [concrete |-> Str(B), shared |-> TRUE]
  /\ Has(bindings, B) /\ bindings[B] = [concrete |-> Fn("F1"), shared |-> TRUE]
  /\ aliases = Empty /\ instances = Empty

\* What make does from line 62 on with the name x, alias resolution left
\* out: the instance stored under x if the cache test finds one, otherwise
\* what is built or made from the concrete under x.
AtName(x, P) ==
  IF Has(instances, x) /\ Truthy(instances[x]) THEN Ok(Container, instances[x])
  ELSE LET concrete == getConcrete(Container, x)
       IN  IF isBuildable(concrete, x) THEN build(Container, concrete, P, 1)
           ELSE IF IsStr(concrete) THEN make(Container, concrete.s, P, 2)
           ELSE Throw(Container, "TypeError")

\* C22.  Aliases are one level only: make(a), a an alias key for b, goes on
\* with the instance or the binding stored under b, also when b is itself
\* an alias key for c: it ends as the lookup under b ends, marks and caches
\* under b, and leaves what is stored under a and (unless the resolution
\* under b reaches it as a dependency) under c alone.
C22_OneLevel ==
  [][(last'.op = "make" /\ Has(aliases, last'.abstract))
       => LET a == last'.abstract
              b == aliases[a]
              r == AtName(b, last'.P)
              cached == Has(instances, b) /\ Truthy(instances[b])
          IN  /\ last'.k = r.k /\ last'.v = r.v /\ last'.log = r.st.log
              /\ UNCHANGED <<bindings, aliases>>
              /\ cached => UNCHANGED <<instances, resolved>>
              /\ (~cached /\ r.k = "ok")
                   => /\ resolved' = r.st.resolved \cup {b}
                      /\ instances' = IF isShared(r.st, b)
                                        THEN Put(r.st.instances, b, r.v)
                                        ELSE r.st.instances
              /\ (~cached /\ r.k # "ok")
                   => (resolved' = r.st.resolved /\ instances' = r.st.instances)]_vars

\* make(a) with the aliases a -> b and b -> c, b bound shared to one
\* constructible and c to another: built from b's, cached and marked under b,
\* nothing under c or a.
C22_Witness ==
  /\ last.op = "make" /\ last.k = "ok" /\ last.abstract = A
  /\ Has(aliases, A) /\ aliases[A] = B
  /\ Has(aliases, B) /\ aliases[B] = C
  /\ Has(bindings, B) /\ bindings[B].shared /\ IsFn(bindings[B].concrete)
  /\ BuiltFrom(last.log, last.v, bindings[B].concrete.f)
  /\ instances = (B :> last.v)
  /\ resolved = {B}

\* The API call `record` performed on the container st: what it leaves.
Apply(st, record) ==
  CASE record.op = "bind" ->
         WithP(Ok(bind(st, record.abstract, record.arg, record.shared), Undefined), Empty)
    [] record.op = "bindIf" ->
         WithP(Ok(bindIf(st, record.abstract, record.arg, record.shared), Undefined), Empty)
    [] record.op = "singleton" ->
         WithP(Ok(singleton(st, record.abstract, record.arg), Undefined), Empty)
    [] record.op = "alias" ->
         WithP(Ok(alias(st, record.abstract, record.arg.s), Undefined), Empty)
    [] record.op = "instance" ->
         WithP(Ok(instance(st, record.abstract, record.arg), Undefined), Empty)
    [] record.op = "forgetInstance" ->
         WithP(Ok(forgetInstance(st, record.abstract), Undefined), Empty)
    [] record.op = "forgotAll" -> WithP(Ok(forgotAll(st), Undefined), Empty)
    [] record.op = "make" -> WithP(make(st, record.abstract, record.P, 1), record.P)
    [] record.op = "call" -> call(st, record.arg, record.P, record.defaultMethod, 1)
    [] record.op = "callClass" -> callClass(st, record.arg, record.P, record.defaultMethod, 1)

\* Resolved maps a container may hold: no marker, the marker of one name, or
\* the markers of every name, with and without the Loader marker.
Markers == {{}} \cup {{n} : n \in Names} \cup {Names \cup {<<"+">> \o n : n \in Names}}

\* The outcome r is the one the step has recorded and left.
Agrees(r) ==
  /\ r.k = last'.k /\ r.v = last'.v /\ r.st.log = last'.log /\ r.P = last'.P2
  /\ r.st.bindings = bindings'
  /\ r.st.instances = instances'
  /\ r.st.aliases = aliases'
  /\ r.st.nextId = nextId'

\* The container as it is, holding the resolved map R instead of its own.
Marked(R) == [Container EXCEPT !.resolved = R]

\* C23.  Resolved markers never influence resolution: in every reachable
\* state, a container that holds the same bindings, instances and aliases
\* but any other resolved map answers bound(n) the same for every name, and
\* the next operation, performed on it, returns the same value or error with
\* the same events and override map left and leaves the same bindings,
\* instances and aliases.
C23_MarkersInert ==
  [][\A R \in Markers :
       /\ \A n \in Names : bound(Marked(R), n) = bound(Container, n)
       /\ \A r \in {Apply(Marked(R), last')} : Agrees(r)]_vars

\* bindIf(n, C) of a name that a make had marked resolved, and that has no
\* binding, no instance and no alias: the marker did not stop the binding.
C23_Witness ==
  /\ last.op = "bindIf" /\ last.prev.op = "make" /\ last.prev.abstract = last.abstract
  /\ last.abstract \in resolved
  /\ Has(bindings, last.abstract) /\ bindings[last.abstract].concrete = last.arg
  /\ instances = Empty /\ aliases = Empty

\* No name reachable from n lies on a cycle.
Acyclic(n) == \A x \in Reachable(n) : ~OnCycle(x)

\* The depth of the acyclic graph below x, in make frames: one frame for a
\* name that has a binding, two for a name that has none (make of the name,
\* then make of the name carrying the Loader marker), and the deepest of
\* what x depends on.
RECURSIVE Frames(_)
Frames(x) ==
  LET below == {Frames(y) : y \in Succ(x)}
      deepest == IF below = {} THEN 0 ELSE CHOOSE d \in below : \A e \in below : e <= d
  IN  (IF Has(bindings, x) THEN 1 ELSE 2) + deepest

\* The step ended as make(n, P) ends when the stack has room for no more
\* frames than the depth of the graph below n, and not by exhausting it.
WithinDepth(n, P) ==
  \A r \in {make(Container, n, P, MaxDepth + 1 - Frames(n))} :
    /\ last'.k # "RangeError"
    /\ r.k = last'.k /\ r.v = last'.v /\ r.st.log = last'.log
    /\ r.st.instances = instances' /\ r.st.resolved = resolved'

\* C24 (as stated).  If the graph reachable from n through string concretes
\* and parameter names is acyclic, make(n, P) ends with a value or an error
\* other than stack exhaustion, within a recursion depth bounded by the depth
\* of that graph.
C24_TerminatesAsStated ==
  [][(last'.op = "make" /\ Acyclic(last'.abstract))
       => WithinDepth(last'.abstract, last'.P)]_vars

\* C24 (amended).  The same, provided no name reachable from n is an alias
\* key.
C24_Terminates ==
  [][(/\ last'.op = "make" /\ Acyclic(last'.abstract)
      /\ \A y \in Reachable(last'.abstract) : ~Has(aliases, y))
       => WithinDepth(last'.abstract, last'.P)]_vars

\* make(a), a bound to the string naming b and b left to the Loader: built
\* from what the Loader found, three frames deep (a stack with room for two
\* is exhausted).
C24_Witness ==
  /\ last.op = "make" /\ last.k = "ok" /\ last.abstract = A
  /\ Has(bindings, A) /\ bindings[A].concrete = Str(B)
  /\ ~Has(bindings, B) /\ Has(modules, B)
  /\ aliases = Empty /\ instances = Empty
  /\ BuiltFrom(last.log, last.v, modules[B])
  /\ Frames(A) = 3
  /\ make(Container, A, Empty, MaxDepth + 1 - 2).k = "RangeError"

\* C25.  Instance-cache invariant, step by step: instance(n, v) stores v
\* under n; a make stores entries only under names that have a binding with
\* shared = true and had no entry, removes none and replaces none (so not a
\* value stored by instance()); hence every entry was stored by instance()
\* or by a make of a shared name.
C25_CacheInvariant ==
  [][/\ last'.op = "instance"
          => (Has(instances', last'.abstract) /\ instances'[last'.abstract] = last'.arg)
     /\ last'.op = "make"
          => /\ \A n \in DOMAIN instances : Has(instances', n) /\ instances'[n] = instances[n]
             /\ \A n \in DOMAIN instances' \ DOMAIN instances :
                  Has(bindings, n) /\ bindings[n].shared]_vars

\* The objects the call constructed.
Built(log) == {log[i].obj : i \in {j \in 1..Len(log) : log[j].e = "new"}}

\* What a failed make has left, for the names in `own`: nothing stored or
\* marked under them; every instance entry stored is an object the call
\* constructed, under a name that is marked resolved; no marker is added
\* unless a resolution got as far as a construction or a cached instance.
FailureLeaves(own) ==
  /\ UNCHANGED <<bindings, aliases>>
  /\ last'.v = Undefined
  /\ \A n \in own :
       /\ Has(instances', n) = Has(instances, n)
       /\ Has(instances, n) => instances'[n] = instances[n]
       /\ (n \in resolved') = (n \in resolved)
  /\ resolved \subseteq resolved'
  /\ DOMAIN instances \subseteq DOMAIN instances'
  /\ \A x \in DOMAIN instances' :
       (~Has(instances, x) \/ instances'[x] # instances[x])
         => (instances'[x] \in Built(last'.log) /\ x \in resolved')
  /\ resolved' # resolved
       => (Constructs(last'.log) \/ \E x \in DOMAIN instances : Truthy(instances[x]))

\* C26 (as stated).  A make(n, P) that fails leaves bindings and aliases
\* unchanged and instances and resolved unchanged for n itself; what it has
\* added are instances and markers of dependencies whose own resolution
\* completed before the failure, and they stay.
C26_FailedMakeAsStated ==
  [][(last'.op = "make" /\ last'.k # "ok") => FailureLeaves({last'.abstract})]_vars

\* C26 (amended).  The same for a name n that is no alias key.
C26_FailedMake ==
  [][(last'.op = "make" /\ last'.k # "ok" /\ ~Has(aliases, last'.abstract))
       => FailureLeaves({last'.abstract})]_vars

\* make(c), c bound to a constructible with the parameters a and d, a an
\* alias of b, b bound shared, d known to nobody: it failed in the Loader
\* after b had been built, and b stays cached and marked, c is neither.
C26_Witness ==
  /\ last.op = "make" /\ last.k = "NotFound" /\ last.abstract = C
  /\ Has(bindings, C) /\ bindings[C].concrete = Fn("F3")
  /\ ~Has(aliases, C)
  /\ Has(bindings, B) /\ bindings[B].shared
  /\ Has(instances, B) /\ instances[B] \in Built(last.log)
  /\ B \in resolved /\ C \notin resolved /\ ~Has(instances, C)
  /\ last.log[Len(last.log)] = [e |-> "require", name |-> <<"d">>]

\* The container as the step leaves it.
ContainerNext ==
  [bindings |-> bindings', instances |-> instances', resolved |-> resolved',
   aliases |-> aliases', modules |-> modules', nextId |-> nextId', log |-> <<>>]

\* make(x, P) on the container the step leaves returns the object cached
\* under x, with no event.
ReturnsCached(x, P) ==
  \A after \in {make(ContainerNext, x, P, 1)} :
    after.k = "ok" /\ after.v = instances[x] /\ after.st.log = <<>>

\* x is bound shared, holds a cached object and was resolved through n: the
\* concrete of x names n, or the constructible of x has the parameter n.
CachedThrough(x, n) ==
  /\ Has(bindings, x) /\ bindings[x].shared
  /\ Has(instances, x) /\ instances[x].t = "obj"
  /\ n \in Succ(x)

\* bind(n, C, s) sets bindings[n] to C and s and removes instances[n];
\* aliases, resolved and every other name's binding and cached instance are
\* unchanged.
BindFrame ==
  /\ bindings' = Put(bindings, last'.abstract,
                     [concrete |-> last'.arg, shared |-> last'.shared])
  /\ instances' = Delete(instances, last'.abstract)
  /\ UNCHANGED <<aliases, resolved>>

\* C27 (as stated).  bind is per-name: bind(n, C, s) changes only
\* bindings[n] and instances[n], so a shared name x that was resolved
\* through n returns its old cached object, with nothing constructed, after
\* n is re-bound.
C27_BindPerNameAsStated ==
  [][(last'.op \in {"bind", "singleton"})
       => /\ BindFrame
          /\ \A x \in Names \ {last'.abstract} :
               CachedThrough(x, last'.abstract)
                 => \A P \in Overrides : ReturnsCached(x, P)]_vars

\* C27 (amended).  The same, for a shared name x that is no alias key.
C27_BindPerName ==
  [][(last'.op \in {"bind", "singleton"})
       => /\ BindFrame
          /\ \A x \in Names \ {last'.abstract} :
               (CachedThrough(x, last'.abstract) /\ ~Has(aliases, x))
                 => \A P \in Overrides : ReturnsCached(x, P)]_vars

\* bind(b, C) after make(a) had cached, for the shared name a whose concrete
\* names b, the object the Loader's module b gave: make(a) still returns that
\* object, although make(b) would now build from C.
C27_Witness ==
  /\ last.op = "bind" /\ last.abstract = B /\ last.arg = Fn("F0")
  /\ last.prev.op = "make" /\ last.prev.abstract = A
  /\ Has(bindings, A) /\ bindings[A] = [concrete |-> Str(B), shared |-> TRUE]
  /\ Has(instances, A) /\ instances[A].t = "obj" /\ instances[A].f = "L0"
  /\ ~Has(aliases, A)
  /\ make(Container, A, Empty, 1).v = instances[A]
  /\ make(Container, B, Empty, 1).v.f = "F0"

\* The map P without the keys in `names`.
Without(P, names) == [x \in DOMAIN P \ Range(names) |-> P[x]]

\* What the claim gives a callable with the parameter names `names` under
\* the map P on the container st: for each name in order, P's value if P
\* holds the name, which then leaves the map, and otherwise what make of
\* the name returns when given the map as it is by then.
AfterMake(r, made) ==
  [st |-> made.st, k |-> made.k, P |-> r.P,
   v |-> IF made.k = "ok" THEN Append(r.v, made.v) ELSE Undefined]

RECURSIVE Consumed(_, _)
Consumed(r, names) ==
  IF names = <<>> \/ r.k # "ok" THEN r
  ELSE IF Has(r.P, Head(names))
    THEN Consumed([r EXCEPT !.v = Append(@, r.P[Head(names)]), !.P = Delete(@, Head(names))],
                  Tail(names))
  ELSE Consumed(AfterMake(r, make(r.st, Head(names), r.P, 2)), Tail(names))

\* The call ended as the resolution e of the callable's parameters ends and,
\* when that succeeded, by applying the callable to what it gave; the
\* caller's map is left without the keys that name the callable's
\* parameters.
CallLeaves(e, names) ==
  /\ last'.k = e.k
  /\ last'.k = "ok"
       => /\ last'.P2 = Without(last'.P, names)
          /\ last'.P2 = e.P
          /\ last'.log = Append(e.st.log, last'.log[Len(last'.log)])
          /\ last'.log[Len(last'.log)].e = "apply"
          /\ last'.log[Len(last'.log)].args = e.v

\* The call of the method m on the instance `made`.
MethodLeaves(made) ==
  made.k = "ok" /\ made.v.t = "obj"
    /\ \A e \in {Consumed(WithP(Ok(made.st, <<>>), last'.P), DeclaredMethod(made.v.f))} :
         CallLeaves(e, DeclaredMethod(made.v.f))

\* C28.  The caller's override map: a make leaves the map it is given as it
\* was; call(f, P) and call('N@m', P) that return leave P without every key
\* that names a parameter of f, or of the method m (the keys N's constructor
\* used stay), and each parameter that P does not hold is made against the
\* map as the earlier parameters left it: a dependency made for a later
\* parameter is not given an override an earlier parameter consumed.
C28_CallerMap ==
  [][/\ last'.op = "make" => last'.P2 = last'.P
     /\ (last'.op = "call" /\ IsFn(last'.arg))
          => \A e \in {Consumed(WithP(Ok(Container, <<>>), last'.P), Declared(last'.arg.f))} :
               CallLeaves(e, Declared(last'.arg.f))
     /\ (last'.op = "call" /\ isCallableWithAtSign(last'.arg) /\ last'.k = "ok")
          => \A made \in {make(Container, Split(last'.arg.s, "@")[1], last'.P, 2)} :
               MethodLeaves(made)]_vars

\* call(function (b, a) {}, {b: 0}) with a bound to a constructible with the
\* parameter b: the function got 0 for b, and the object made for a was
\* built with a made b, not with 0; the map is left empty.
C28_Witness ==
  /\ last.op = "call" /\ last.k = "ok" /\ last.arg = Fn("F2")
  /\ last.P = (B :> Zero) /\ last.P2 = Empty
  /\ Has(bindings, A) /\ bindings[A].concrete = Fn("L1") /\ ~Has(instances, A)
  /\ \E i \in 1..Len(last.log) :
       /\ last.log[i].e = "new" /\ last.log[i].obj.f = "L1"
       /\ last.log[i].args[1].t = "obj"
       /\ last.log[Len(last.log)].args = <<Zero, last.log[i].obj>>

\* The name whose concrete make(x0) ends up building: the alias of x0
\* resolved, and string concretes that name another abstract followed.
RECURSIVE FinalName(_, _)
FinalName(x0, fuel) ==
  LET x == AliasResolved(x0)
  IN  IF fuel = 0 \/ ~Has(bindings, x) \/ IsFn(bindings[x].concrete)
           \/ bindings[x].concrete.s = x
        THEN x
        ELSE FinalName(bindings[x].concrete.s, fuel - 1)

\* What the claim gives a constructible with the parameter names `names`
\* under the map P: P's value for a name P holds, and otherwise what make of
\* the name returns when it is given no override at all.
RECURSIVE Injected(_, _, _)
Injected(r, names, P) ==
  IF names = <<>> \/ r.k # "ok" THEN r
  ELSE IF Has(P, Head(names))
    THEN Injected([r EXCEPT !.v = Append(@, P[Head(names)])], Tail(names), P)
  ELSE Injected(AfterMake(r, make(r.st, Head(names), Empty, 2)), Tail(names), P)

\* The events of the step are: the Loader call when the final name has no
\* binding, the events of the injection e, and the construction with the
\* arguments e gave.
BuiltBy(e, loaded) ==
  /\ e.k = "ok"
  /\ last'.log[Len(last'.log)].args = e.v
  /\ SubSeq(last'.log, 1, Len(last'.log) - 1) = loaded \o e.st.log

\* C29.  Scope of overrides in make: whenever make(n, P) constructs the
\* value it returns, the constructible that n finally resolves to, string
\* concretes followed, gets P's value for each of its parameters that P
\* names, and every other parameter d is resolved by make(d) with an empty
\* override map: the events of the whole resolution are those of resolving
\* the dependencies with no override, so no parameter of a dependency's
\* constructible is taken from P.
C29_OverrideScope ==
  [][(/\ last'.op = "make" /\ last'.k = "ok" /\ Constructs(last'.log)
      /\ last'.log[Len(last'.log)].obj = last'.v)
       => LET x == FinalName(last'.abstract, MaxDepth)
              loaded == IF Has(bindings, x) THEN <<>>
                        ELSE <<[e |-> "require", name |-> x]>>
          IN  \A e \in {Injected(WithP(Ok(Container, <<>>), last'.P),
                                 Declared(last'.v.f), last'.P)} :
                BuiltBy(e, loaded)]_vars

\* make(c, {a: 0}) with c bound to a constructible with the parameter b, b
\* to one with the parameter a, and 'bar' registered for a: b's object was
\* built with 'bar', not with 0.
C29_Witness ==
  /\ last.op = "make" /\ last.k = "ok" /\ last.abstract = C /\ last.P = (A :> Zero)
  /\ Has(bindings, C) /\ bindings[C].concrete = Fn("L1")
  /\ Has(bindings, B) /\ bindings[B].concrete = Fn("F1")
  /\ Len(last.log) = 2
  /\ last.log[1].e = "new" /\ last.log[1].obj.f = "F1" /\ last.log[1].args = <<Bar>>
  /\ last.log[2].e = "new" /\ last.log[2].obj = last.v /\ last.log[2].args = <<last.log[1].obj>>

====
